---- MODULE Spec2Model ----
(***************************************************************************)
(* CSVRender::Pathgrid (apps/opencs/view/render/pathgrid.cpp): the editor  *)
(* object of one pathgrid.  The model holds the instance's members, the    *)
(* pathgrid record it resolves through getPathgridSource(), and the        *)
(* command macro its apply* methods push commands on.                      *)
(***************************************************************************)
EXTENDS Integers, Sequences, FiniteSets, TLC

\* ------------------------------------------------------------------ bounds

\* Most points the pathgrid record holds.
MaxPoints == 2

\* Most edge rows the pathgrid record holds.
MaxEdges == 2

\* Most moveSelected calls accumulated in the selection transform.
MaxMoves == 1

\* ------------------------------------------------------- program constants

\* ESM::Land::REAL_SIZE, the extent of an exterior cell.
CellExtent == 8192

\* Range of unsigned short (node indices; the loop counters of selectAll).
UShortRange == 65536

\* Node indices the callers pass: every valid row and one row past the end.
NodeIds == 0 .. MaxPoints

\* ---------------------------------------------------------------- helpers

Range(s) == {s[i] : i \in 1 .. Len(s)}

Contains(s, e) == \E i \in 1 .. Len(s) : s[i] = e

\* std::find: the first position holding e, Len(s) + 1 (end()) when none does.
Find(s, e) ==
    IF Contains(s, e)
    THEN CHOOSE i \in 1 .. Len(s) : s[i] = e /\ \A j \in 1 .. i - 1 : s[j] # e
    ELSE Len(s) + 1

\* std::vector::erase(iterator) at position i.
Erase(s, i) == [k \in 1 .. Len(s) - 1 |-> IF k < i THEN s[k] ELSE s[k + 1]]

\* std::vector::insert at 0-based position p.
InsertAt(s, p, e) ==
    [k \in 1 .. Len(s) + 1 |-> IF k <= p THEN s[k] ELSE IF k = p + 1 THEN e ELSE s[k - 1]]

NoDuplicates(s) == \A i, j \in 1 .. Len(s) : i # j => s[i] # s[j]

\* static_cast<unsigned short>
UShort(n) == n % UShortRange

\* static_cast<int> of a double.  Vec3d components are carried in half units,
\* so that the cast has a fraction to drop: truncation toward zero.
ToInt(h) == IF h >= 0 THEN h \div 2 ELSE -((-h) \div 2)

\* ------------------------------------------------------------------ state

VARIABLES
    docIndex,             \* mPathgridCollection.searchId(mId): -1 or the record's index
    docDeleted,           \* the record's isDeleted()
    mPoints,              \* the record's points, each <<mX, mY, mZ>>
    mEdges,               \* the record's edges, each <<mV0, mV1>>
    mCoords,              \* cell coordinates <<x, y>>
    mInterior,
    mSelected,
    mConnectionIndicator,
    mConnectionNode,
    mChangeGeometry,
    mRemoveGeometry,
    mPathgridGeometry,    \* 0, or the identity of the drawable in mPathgridGeode
    mSelectedGeometry,    \* 0, or the identity of the drawable in mSelectedGeode
    wireframeNodes,       \* node list the drawable in mSelectedGeode was built from
    mSelectedNodePos,     \* mSelectedNode->getPosition(), in half units
    commands,             \* the CommandMacro of the apply* call that led here
    last,                 \* the operation that produced this state, its arguments
    selectedBefore,       \* mSelected before that operation
    selectedBeforeTwo,    \* mSelected before the two of them, when it repeats the one before
    ticksSinceMark        \* runs of update() since geometry was last marked, up to 2

docVars == <<docIndex, docDeleted, mPoints, mEdges>>

selfVars == <<mSelected, mConnectionIndicator, mConnectionNode, mChangeGeometry,
              mRemoveGeometry, mPathgridGeometry, mSelectedGeometry, wireframeNodes,
              mSelectedNodePos>>

history == <<last, selectedBefore, selectedBeforeTwo>>

vars == <<docVars, mCoords, mInterior, selfVars, commands, history, ticksSinceMark>>

\* The members an operation works on, with the drawables held on entry.
Self ==
    [ mSelected            |-> mSelected,
      mConnectionIndicator |-> mConnectionIndicator,
      mConnectionNode      |-> mConnectionNode,
      mChangeGeometry      |-> mChangeGeometry,
      mRemoveGeometry      |-> mRemoveGeometry,
      mPathgridGeometry    |-> mPathgridGeometry,
      mSelectedGeometry    |-> mSelectedGeometry,
      wireframeNodes       |-> wireframeNodes,
      mSelectedNodePos     |-> mSelectedNodePos,
      entryPathgrid        |-> mPathgridGeometry,
      entrySelected        |-> mSelectedGeometry ]

\* A drawable allocated now is another object than the one held on entry.
NewDrawable(held) == IF held = 1 THEN 2 ELSE 1

\* ------------------------------------------------- Graph Source Accessor

NoSource == [found |-> FALSE, mPoints |-> <<>>, mEdges |-> <<>>]

\* getPathgridSource that does not look at isDeleted().
getPathgridSource_ignoreDeleted ==
    IF docIndex # -1
    THEN [found |-> TRUE, mPoints |-> mPoints, mEdges |-> mEdges]
    ELSE NoSource

getPathgridSource ==
    IF docIndex # -1 /\ ~docDeleted
    THEN [found |-> TRUE, mPoints |-> mPoints, mEdges |-> mEdges]
    ELSE NoSource

\* ------------------------------------------------------------- geometry

removePathgridGeometry(s) ==
    IF s.mPathgridGeometry # 0 THEN [s EXCEPT !.mPathgridGeometry = 0] ELSE s

removeSelectedGeometry(s) ==
    IF s.mSelectedGeometry # 0
    THEN [s EXCEPT !.mSelectedGeometry = 0, !.wireframeNodes = <<>>]
    ELSE s

\* wireframeList that appends mConnectionNode without looking for it.
wireframeList_noErase(s) ==
    IF s.mConnectionIndicator
    THEN Append(s.mSelected, s.mConnectionNode)
    ELSE s.mSelected

\* The node list createSelectedGeometry hands to createPathgridSelectedWireframe.
wireframeList(s) ==
    IF s.mConnectionIndicator
    THEN LET tempList     == s.mSelected
             searchResult == Find(tempList, s.mConnectionNode)
             erased       == IF searchResult # Len(tempList) + 1
                             THEN Erase(tempList, searchResult)
                             ELSE tempList
         IN  Append(erased, s.mConnectionNode)
    ELSE s.mSelected

createSelectedGeometryFrom(s, source) ==
    LET r == removeSelectedGeometry(s)
    IN  [r EXCEPT !.mSelectedGeometry = NewDrawable(s.entrySelected),
                  !.wireframeNodes = wireframeList(r)]

createSelectedGeometry(s) ==
    LET source == getPathgridSource
    IN  IF source.found
        THEN createSelectedGeometryFrom(s, source)
        ELSE removeSelectedGeometry(s)

recreateGeometry(s) == [s EXCEPT !.mChangeGeometry = TRUE]

removeGeometry(s) == [s EXCEPT !.mRemoveGeometry = TRUE]

createGeometry(s) ==
    LET source == getPathgridSource
    IN  IF source.found
        THEN LET r == removePathgridGeometry(s)
                 b == [r EXCEPT !.mPathgridGeometry = NewDrawable(s.entryPathgrid)]
             IN  createSelectedGeometryFrom(b, source)
        ELSE removeGeometry(s)

\* update that looks at mChangeGeometry before mRemoveGeometry.
update_rebuildFirst(s) ==
    LET r == IF s.mChangeGeometry
             THEN createGeometry(s)
             ELSE IF s.mRemoveGeometry
                  THEN removeSelectedGeometry(removePathgridGeometry(s))
                  ELSE s
    IN  [r EXCEPT !.mChangeGeometry = FALSE, !.mRemoveGeometry = FALSE]

\* update that leaves mChangeGeometry set.
update_keepsFlag(s) ==
    LET r == IF s.mRemoveGeometry
             THEN removeSelectedGeometry(removePathgridGeometry(s))
             ELSE IF s.mChangeGeometry THEN createGeometry(s) ELSE s
    IN  [r EXCEPT !.mRemoveGeometry = FALSE]

update(s) ==
    LET r == IF s.mRemoveGeometry
             THEN removeSelectedGeometry(removePathgridGeometry(s))
             ELSE IF s.mChangeGeometry THEN createGeometry(s) ELSE s
    IN  [r EXCEPT !.mChangeGeometry = FALSE, !.mRemoveGeometry = FALSE]

\* ------------------------------------------------------- Selection State

\* The loop of selectAll and invertSelected: i from 0 while i < n, keeping
\* the i that are not in temp.
RECURSIVE pushBackFrom(_, _, _, _)
pushBackFrom(list, i, n, temp) ==
    IF i < n
    THEN pushBackFrom(IF Contains(temp, i) THEN list ELSE Append(list, i), i + 1, n, temp)
    ELSE list

\* selectAll that clears mSelected only once the record has resolved.
selectAll_clearInside(s) ==
    LET source == getPathgridSource
    IN  IF source.found
        THEN createSelectedGeometryFrom(
                 [s EXCEPT !.mSelected =
                      pushBackFrom(<<>>, 0, UShort(Len(source.mPoints)), <<>>)],
                 source)
        ELSE removeSelectedGeometry(s)

\* selectAll that forgets to clear mSelected first.
selectAll_noClear(s) ==
    LET source == getPathgridSource
    IN  IF source.found
        THEN createSelectedGeometryFrom(
                 [s EXCEPT !.mSelected =
                      pushBackFrom(s.mSelected, 0, UShort(Len(source.mPoints)), <<>>)],
                 source)
        ELSE removeSelectedGeometry([s EXCEPT !.mSelected = <<>>])

selectAll(s) ==
    LET cleared == [s EXCEPT !.mSelected = <<>>]
        source  == getPathgridSource
    IN  IF source.found
        THEN createSelectedGeometryFrom(
                 [cleared EXCEPT !.mSelected =
                      pushBackFrom(<<>>, 0, UShort(Len(source.mPoints)), <<>>)],
                 source)
        ELSE removeSelectedGeometry(cleared)

\* toggleSelected that puts a removed node's successor out of order: erase by
\* swapping the last element into the hole.
toggleSelected_swapErase(s, node) ==
    LET searchResult == Find(s.mSelected, node)
        size == Len(s.mSelected)
        toggled == IF searchResult # size + 1
                   THEN [k \in 1 .. size - 1 |->
                            IF k = searchResult THEN s.mSelected[size] ELSE s.mSelected[k]]
                   ELSE Append(s.mSelected, node)
    IN  createSelectedGeometry([s EXCEPT !.mSelected = toggled])

\* toggleSelected that marks the geometry and leaves the drawable to update.
toggleSelected_deferred(s, node) ==
    LET searchResult == Find(s.mSelected, node)
        toggled == IF searchResult # Len(s.mSelected) + 1
                   THEN Erase(s.mSelected, searchResult)
                   ELSE Append(s.mSelected, node)
    IN  recreateGeometry([s EXCEPT !.mSelected = toggled])

toggleSelected(s, node) ==
    LET searchResult == Find(s.mSelected, node)
        toggled == IF searchResult # Len(s.mSelected) + 1
                   THEN Erase(s.mSelected, searchResult)
                   ELSE Append(s.mSelected, node)
    IN  createSelectedGeometry([s EXCEPT !.mSelected = toggled])

\* invertSelected that forgets to clear mSelected before refilling it.
invertSelected_noClear(s) ==
    LET temp    == s.mSelected
        source  == getPathgridSource
    IN  IF source.found
        THEN createSelectedGeometryFrom(
                 [s EXCEPT !.mSelected =
                      pushBackFrom(s.mSelected, 0, UShort(Len(source.mPoints)), temp)],
                 source)
        ELSE removeSelectedGeometry([s EXCEPT !.mSelected = <<>>])

invertSelected(s) ==
    LET temp    == s.mSelected
        cleared == [s EXCEPT !.mSelected = <<>>]
        source  == getPathgridSource
    IN  IF source.found
        THEN createSelectedGeometryFrom(
                 [cleared EXCEPT !.mSelected =
                      pushBackFrom(<<>>, 0, UShort(Len(source.mPoints)), temp)],
                 source)
        ELSE removeSelectedGeometry(cleared)

clearSelected(s) == removeSelectedGeometry([s EXCEPT !.mSelected = <<>>])

moveSelected(s, offset) ==
    [s EXCEPT !.mSelectedNodePos = [k \in 1 .. 3 |-> s.mSelectedNodePos[k] + offset[k]]]

\* setupConnectionIndicator that also calls recreateGeometry.
setupConnectionIndicator_marks(s, node) ==
    recreateGeometry(createSelectedGeometry([s EXCEPT !.mConnectionIndicator = TRUE,
                                                      !.mConnectionNode = node]))

setupConnectionIndicator(s, node) ==
    createSelectedGeometry([s EXCEPT !.mConnectionIndicator = TRUE,
                                     !.mConnectionNode = node])

\* resetMove that leaves mSelectedNode where moveSelected put it.
resetMove_keepsPosition(s) ==
    IF s.mConnectionIndicator
    THEN createSelectedGeometry([s EXCEPT !.mConnectionIndicator = FALSE])
    ELSE s

resetMove(s) ==
    LET r == [s EXCEPT !.mSelectedNodePos = <<0, 0, 0>>]
    IN  IF r.mConnectionIndicator
        THEN createSelectedGeometry([r EXCEPT !.mConnectionIndicator = FALSE])
        ELSE r

\* -------------------------------------------------- Spatial Clamp Policy

\* clampToCell without the lower bound.
clampToCell_noFloor(v) ==
    IF mInterior THEN v
    ELSE IF v > CellExtent THEN CellExtent
    ELSE v

clampToCell(v) ==
    IF mInterior THEN v
    ELSE IF v > CellExtent THEN CellExtent
    ELSE IF v < 0 THEN 0
    ELSE v

\* --------------------------------------------------- Edit Command Builder

AddNestedCommand(parentColumn, row) ==
    [kind |-> "AddNested", parent |-> parentColumn, row |-> row, column |-> "", value |-> 0]

ModifyCommand(parentColumn, row, column, value) ==
    [kind |-> "Modify", parent |-> parentColumn, row |-> row, column |-> column,
     value |-> value]

DeleteNestedCommand(parentColumn, row) ==
    [kind |-> "DeleteNested", parent |-> parentColumn, row |-> row, column |-> "",
     value |-> 0]

\* mBaseNode->getPosition(), set by the constructor, in half units.
basePosition == <<2 * mCoords[1] * CellExtent, 2 * mCoords[2] * CellExtent, 0>>

\* applyPoint that takes worldPos for a position local to the cell.
applyPoint_noBase(s, cmds, worldPos) ==
    LET source == getPathgridSource
    IN  IF source.found
        THEN LET posX == clampToCell(ToInt(worldPos[1]))
                 posY == clampToCell(ToInt(worldPos[2]))
                 posZ == clampToCell(ToInt(worldPos[3]))
                 row  == Len(source.mPoints)
             IN  [self |-> s,
                  commands |-> cmds \o
                      << AddNestedCommand("PathgridPoints", row),
                         ModifyCommand("PathgridPoints", row, "PosX", posX),
                         ModifyCommand("PathgridPoints", row, "PosY", posY),
                         ModifyCommand("PathgridPoints", row, "PosZ", posZ) >>]
        ELSE [self |-> s, commands |-> cmds]

applyPoint(s, cmds, worldPos) ==
    LET source == getPathgridSource
    IN  IF source.found
        THEN LET localCoords == [k \in 1 .. 3 |-> worldPos[k] - basePosition[k]]
                 posX == clampToCell(ToInt(localCoords[1]))
                 posY == clampToCell(ToInt(localCoords[2]))
                 posZ == clampToCell(ToInt(localCoords[3]))
                 row  == Len(source.mPoints)
             IN  [self |-> s,
                  commands |-> cmds \o
                      << AddNestedCommand("PathgridPoints", row),
                         ModifyCommand("PathgridPoints", row, "PosX", posX),
                         ModifyCommand("PathgridPoints", row, "PosY", posY),
                         ModifyCommand("PathgridPoints", row, "PosZ", posZ) >>]
        ELSE [self |-> s, commands |-> cmds]

\* source->mPoints[node]; past the end of the vector the read is undefined and
\* yields whatever lies there, here stray.
pointAt(source, node, stray) ==
    IF node < Len(source.mPoints) THEN source.mPoints[node + 1] ELSE stray

RECURSIVE applyPositionLoop(_, _, _, _, _, _)
applyPositionLoop(cmds, i, selected, source, offset, stray) ==
    IF i < Len(selected)
    THEN LET point == pointAt(source, selected[i + 1], stray)
             row   == selected[i + 1]
         IN  applyPositionLoop(
                 cmds \o
                     << ModifyCommand("PathgridPoints", row, "PosX",
                                      clampToCell(point[1] + offset[1])),
                        ModifyCommand("PathgridPoints", row, "PosY",
                                      clampToCell(point[2] + offset[2])),
                        ModifyCommand("PathgridPoints", row, "PosZ",
                                      clampToCell(point[3] + offset[3])) >>,
                 i + 1, selected, source, offset, stray)
    ELSE cmds

\* applyPosition that adds the offset without the static_cast<int>.
applyPosition_noTruncate(s, cmds, stray) ==
    LET source == getPathgridSource
    IN  IF source.found
        THEN [self |-> s,
              commands |-> applyPositionLoop(cmds, 0, s.mSelected, source,
                                             s.mSelectedNodePos, stray)]
        ELSE [self |-> s, commands |-> cmds]

applyPosition(s, cmds, stray) ==
    LET source == getPathgridSource
    IN  IF source.found
        THEN LET localCoords == s.mSelectedNodePos
                 offset == <<ToInt(localCoords[1]), ToInt(localCoords[2]),
                             ToInt(localCoords[3])>>
             IN  [self |-> s,
                  commands |-> applyPositionLoop(cmds, 0, s.mSelected, source, offset, stray)]
        ELSE [self |-> s, commands |-> cmds]

\* edgeExists that keeps scanning and returns the last matching row.
edgeExists_lastRow(source, node1, node2) ==
    IF \E i \in 1 .. Len(source.mEdges) : source.mEdges[i] = <<node1, node2>>
    THEN (CHOOSE i \in 1 .. Len(source.mEdges) :
              /\ source.mEdges[i] = <<node1, node2>>
              /\ \A j \in i + 1 .. Len(source.mEdges) :
                     source.mEdges[j] # <<node1, node2>>) - 1
    ELSE -1

\* The row of the first edge node1 -> node2, -1 when there is none.
edgeExists(source, node1, node2) ==
    IF \E i \in 1 .. Len(source.mEdges) : source.mEdges[i] = <<node1, node2>>
    THEN (CHOOSE i \in 1 .. Len(source.mEdges) :
              /\ source.mEdges[i] = <<node1, node2>>
              /\ \A j \in 1 .. i - 1 : source.mEdges[j] # <<node1, node2>>) - 1
    ELSE -1

\* addEdge that does not advance row after the first direction.
addEdge_sameRow(cmds, source, node1, node2) ==
    LET row    == Len(source.mEdges)
        first  == IF edgeExists(source, node1, node2) = -1
                  THEN << AddNestedCommand("PathgridEdges", row),
                          ModifyCommand("PathgridEdges", row, "Edge0", node1),
                          ModifyCommand("PathgridEdges", row, "Edge1", node2) >>
                  ELSE <<>>
        second == IF edgeExists(source, node2, node1) = -1
                  THEN << AddNestedCommand("PathgridEdges", row),
                          ModifyCommand("PathgridEdges", row, "Edge0", node2),
                          ModifyCommand("PathgridEdges", row, "Edge1", node1) >>
                  ELSE <<>>
    IN  cmds \o first \o second

addEdge(cmds, source, node1, node2) ==
    LET row    == Len(source.mEdges)
        first  == IF edgeExists(source, node1, node2) = -1
                  THEN << AddNestedCommand("PathgridEdges", row),
                          ModifyCommand("PathgridEdges", row, "Edge0", node1),
                          ModifyCommand("PathgridEdges", row, "Edge1", node2) >>
                  ELSE <<>>
        row2   == IF edgeExists(source, node1, node2) = -1 THEN row + 1 ELSE row
        second == IF edgeExists(source, node2, node1) = -1
                  THEN << AddNestedCommand("PathgridEdges", row2),
                          ModifyCommand("PathgridEdges", row2, "Edge0", node2),
                          ModifyCommand("PathgridEdges", row2, "Edge1", node1) >>
                  ELSE <<>>
    IN  cmds \o first \o second

applyEdge(s, cmds, node1, node2) ==
    LET source == getPathgridSource
    IN  IF source.found
        THEN [self |-> s, commands |-> addEdge(cmds, source, node1, node2)]
        ELSE [self |-> s, commands |-> cmds]

RECURSIVE applyEdgesLoop(_, _, _, _, _)
applyEdgesLoop(cmds, i, selected, source, node) ==
    IF i < Len(selected)
    THEN applyEdgesLoop(addEdge(cmds, source, node, selected[i + 1]),
                        i + 1, selected, source, node)
    ELSE cmds

\* applyEdges whose loop starts at the second selected node.
applyEdges_skipFirst(s, cmds, node) ==
    LET source == getPathgridSource
    IN  IF source.found
        THEN [self |-> s, commands |-> applyEdgesLoop(cmds, 1, s.mSelected, source, node)]
        ELSE [self |-> s, commands |-> cmds]

applyEdges(s, cmds, node) ==
    LET source == getPathgridSource
    IN  IF source.found
        THEN [self |-> s, commands |-> applyEdgesLoop(cmds, 0, s.mSelected, source, node)]
        ELSE [self |-> s, commands |-> cmds]

\* std::sort(begin, end, std::greater<int>()).
RECURSIVE sortGreater(_)
sortGreater(list) ==
    IF list = <<>> THEN <<>>
    ELSE LET top == CHOOSE e \in Range(list) : \A f \in Range(list) : e >= f
         IN  <<top>> \o sortGreater(Erase(list, Find(list, top)))

RECURSIVE deleteRows(_, _, _, _)
deleteRows(cmds, parentColumn, rows, i) ==
    IF i <= Len(rows)
    THEN deleteRows(Append(cmds, DeleteNestedCommand(parentColumn, rows[i])),
                    parentColumn, rows, i + 1)
    ELSE cmds

\* applyRemoveNodes that sorts with std::less: lowest row first.
applyRemoveNodes_ascending(s, cmds) ==
    LET source  == getPathgridSource
        greater == sortGreater(s.mSelected)
        less    == [i \in 1 .. Len(greater) |-> greater[Len(greater) + 1 - i]]
    IN  IF source.found
        THEN [self |-> clearSelected(s),
              commands |-> deleteRows(cmds, "PathgridPoints", less, 1)]
        ELSE [self |-> clearSelected(s), commands |-> cmds]

\* applyRemoveNodes that pushes the delete commands in selection order.
applyRemoveNodes_unsorted(s, cmds) ==
    LET source == getPathgridSource
    IN  IF source.found
        THEN [self |-> clearSelected(s),
              commands |-> deleteRows(cmds, "PathgridPoints", s.mSelected, 1)]
        ELSE [self |-> clearSelected(s), commands |-> cmds]

applyRemoveNodes(s, cmds) ==
    LET source == getPathgridSource
        sorted == [s EXCEPT !.mSelected = sortGreater(s.mSelected)]
    IN  IF source.found
        THEN [self |-> clearSelected(sorted),
              commands |-> deleteRows(cmds, "PathgridPoints", sorted.mSelected, 1)]
        ELSE [self |-> clearSelected(s), commands |-> cmds]

\* The positions <<i, j>> the two loops of applyRemoveEdges visit:
\* i <= size, i + 1 <= j < size.
removeEdgesPairs(size) ==
    {<<i, j>> \in (0 .. size) \X (0 .. size) : i + 1 <= j /\ j < size}

\* rowsToRemove, a std::set: the rows found for the visited pairs.
rowsToRemove(source, selected) ==
    {row \in UNION {{edgeExists(source, selected[p[1] + 1], selected[p[2] + 1]),
                     edgeExists(source, selected[p[2] + 1], selected[p[1] + 1])}
                    : p \in removeEdgesPairs(Len(selected))} : row # -1}

\* Iteration of std::set<int, std::greater<int> >.
RECURSIVE descending(_)
descending(set) ==
    IF set = {} THEN <<>>
    ELSE LET top == CHOOSE e \in set : \A f \in set : e >= f
         IN  <<top>> \o descending(set \ {top})

applyRemoveEdges(s, cmds) ==
    LET source == getPathgridSource
    IN  IF source.found
        THEN [self |-> s,
              commands |-> deleteRows(cmds, "PathgridEdges",
                                      descending(rowsToRemove(source, s.mSelected)), 1)]
        ELSE [self |-> s, commands |-> cmds]

\* ------------------------------------------- document layer (the executor)

\* One command of a committed macro applied to the record: AddNested inserts a
\* blank row at its index, DeleteNested removes the row and shifts the rows
\* after it down by one, Modify sets one field of an existing row.
setField(row, column, value) ==
    CASE column = "PosX"  -> <<value, row[2], row[3]>>
      [] column = "PosY"  -> <<row[1], value, row[3]>>
      [] column = "PosZ"  -> <<row[1], row[2], value>>
      [] column = "Edge0" -> <<value, row[2]>>
      [] column = "Edge1" -> <<row[1], value>>
      [] OTHER -> row

executeOn(rows, blank, cmd) ==
    CASE cmd.kind = "AddNested" /\ cmd.row <= Len(rows) -> InsertAt(rows, cmd.row, blank)
      [] cmd.kind = "DeleteNested" /\ cmd.row < Len(rows) -> Erase(rows, cmd.row + 1)
      [] cmd.kind = "Modify" /\ cmd.row < Len(rows) ->
             [rows EXCEPT ![cmd.row + 1] = setField(rows[cmd.row + 1], cmd.column, cmd.value)]
      [] OTHER -> rows

execute(doc, cmd) ==
    IF cmd.parent = "PathgridPoints"
    THEN [doc EXCEPT !.mPoints = executeOn(doc.mPoints, <<0, 0, 0>>, cmd)]
    ELSE [doc EXCEPT !.mEdges = executeOn(doc.mEdges, <<0, 0>>, cmd)]

RECURSIVE executeAll(_, _, _)
executeAll(doc, cmds, i) ==
    IF i <= Len(cmds) THEN executeAll(execute(doc, cmds[i]), cmds, i + 1) ELSE doc

\* ------------------------------------------------------------- inputs

\* World positions handed to applyPoint, in half units.
WorldPositions == {<<16405, -16485, 18000>>, <<16384, -16384, 0>>}

\* Offsets handed to moveSelected, in half units.
MoveOffsets == {<<3, -3, 0>>}

\* What a read past the end of mPoints may yield.
StrayPoints == {<<0, 0, 0>>, <<-7, 9001, 1>>}

\* Cell coordinates the instance is constructed with.
CellCoordinates == {<<1, -1>>}

\* The i-th point of the record as loaded: coordinates below zero, inside the
\* cell, on its border and beyond it all occur.
loadedPoint(i) == <<10 * i - 60, 4096 * (i + 1), 9000 - i>>

\* The records the document may hold when the instance is constructed: up to
\* MaxPoints points, up to MaxEdges edges between them in any order, the same
\* edge possibly twice.
LoadedPoints == {[i \in 1 .. n |-> loadedPoint(i - 1)] : n \in 0 .. MaxPoints}

LoadedEdges(n) ==
    UNION {[1 .. k -> (0 .. n - 1) \X (0 .. n - 1)] : k \in 0 .. MaxEdges}

\* ---------------------------------------------------------------- Init

\* Pathgrid::Pathgrid: nothing selected, no drawable yet, recreateGeometry()
\* called; the record may or may not exist.
Init ==
    /\ docIndex \in {-1, 0}
    /\ docDeleted = FALSE
    /\ mPoints \in (IF docIndex = -1 THEN {<<>>} ELSE LoadedPoints)
    /\ mEdges \in LoadedEdges(Len(mPoints))
    /\ mCoords \in CellCoordinates
    /\ mInterior \in BOOLEAN
    /\ mSelected = <<>>
    /\ mConnectionIndicator = FALSE
    /\ mConnectionNode = 0
    /\ mChangeGeometry = TRUE
    /\ mRemoveGeometry = FALSE
    /\ mPathgridGeometry = 0
    /\ mSelectedGeometry = 0
    /\ wireframeNodes = <<>>
    /\ mSelectedNodePos = <<0, 0, 0>>
    /\ commands = <<>>
    /\ last = [op |-> "Pathgrid", node1 |-> -1, node2 |-> -1, repeated |-> FALSE]
    /\ selectedBefore = <<>>
    /\ selectedBeforeTwo = <<>>
    /\ ticksSinceMark = 0

\* ------------------------------------------------------------- actions

Install(s) ==
    /\ mSelected' = s.mSelected
    /\ mConnectionIndicator' = s.mConnectionIndicator
    /\ mConnectionNode' = s.mConnectionNode
    /\ mChangeGeometry' = s.mChangeGeometry
    /\ mRemoveGeometry' = s.mRemoveGeometry
    /\ mPathgridGeometry' = s.mPathgridGeometry
    /\ mSelectedGeometry' = s.mSelectedGeometry
    /\ wireframeNodes' = s.wireframeNodes
    /\ mSelectedNodePos' = s.mSelectedNodePos

\* What the properties observe: the operation, its arguments, whether it
\* repeats the toggleSelected or invertSelected call before it, the selection
\* it started from, and for a repeated one the selection the first started from.
Record(op, node1, node2) ==
    LET repeated == /\ op \in {"toggleSelected", "invertSelected"}
                    /\ last.op = op
                    /\ last.node1 = node1
    IN  /\ last' = [op |-> op, node1 |-> node1, node2 |-> node2, repeated |-> repeated]
        /\ selectedBefore' = mSelected
        /\ selectedBeforeTwo' = IF repeated THEN selectedBefore ELSE <<>>

\* A selection operation: the document is left alone.  The macro of an earlier
\* apply* call has been committed or dropped by its caller and is gone.
Selection(op, node, s) ==
    /\ Install(s)
    /\ Record(op, node, -1)
    /\ commands' = <<>>
    /\ UNCHANGED <<docVars, mCoords, mInterior, ticksSinceMark>>

\* A builder operation on a fresh macro.
Builder(op, node1, node2, r) ==
    /\ Install(r.self)
    /\ commands' = r.commands
    /\ Record(op, node1, node2)
    /\ UNCHANGED <<docVars, mCoords, mInterior, ticksSinceMark>>

CallSelectAll == Selection("selectAll", -1, selectAll(Self))

CallToggleSelected == \E node \in NodeIds : Selection("toggleSelected", node, toggleSelected(Self, node))

CallInvertSelected == Selection("invertSelected", -1, invertSelected(Self))

CallClearSelected == Selection("clearSelected", -1, clearSelected(Self))

CallMoveSelected ==
    \E offset \in MoveOffsets :
        /\ \A k \in 1 .. 3 :
               /\ mSelectedNodePos[k] + offset[k] <= 3 * MaxMoves
               /\ mSelectedNodePos[k] + offset[k] >= -3 * MaxMoves
        /\ Selection("moveSelected", -1, moveSelected(Self, offset))

CallSetupConnectionIndicator ==
    \E node \in NodeIds :
        Selection("setupConnectionIndicator", node, setupConnectionIndicator(Self, node))

CallResetMove == Selection("resetMove", -1, resetMove(Self))

CallApplyPoint ==
    \E worldPos \in WorldPositions : Builder("applyPoint", -1, -1, applyPoint(Self, <<>>, worldPos))

CallApplyPosition ==
    \E stray \in StrayPoints : Builder("applyPosition", -1, -1, applyPosition(Self, <<>>, stray))

CallApplyEdge ==
    \E node1, node2 \in NodeIds :
        Builder("applyEdge", node1, node2, applyEdge(Self, <<>>, node1, node2))

CallApplyEdges == \E node \in NodeIds : Builder("applyEdges", node, -1, applyEdges(Self, <<>>, node))

CallApplyRemoveNodes == Builder("applyRemoveNodes", -1, -1, applyRemoveNodes(Self, <<>>))

CallApplyRemoveEdges == Builder("applyRemoveEdges", -1, -1, applyRemoveEdges(Self, <<>>))

\* The owner marks the geometry (on a change of the document).
CallRecreateGeometry ==
    /\ Install(recreateGeometry(Self))
    /\ Record("recreateGeometry", -1, -1)
    /\ ticksSinceMark' = 0
    /\ commands' = <<>>
    /\ UNCHANGED <<docVars, mCoords, mInterior>>

CallRemoveGeometry ==
    /\ Install(removeGeometry(Self))
    /\ Record("removeGeometry", -1, -1)
    /\ ticksSinceMark' = 0
    /\ commands' = <<>>
    /\ UNCHANGED <<docVars, mCoords, mInterior>>

\* PathgridNodeCallback: the update traversal reaches mBaseNode.
Tick ==
    /\ Install(update(Self))
    /\ Record("update", -1, -1)
    /\ ticksSinceMark' = IF ticksSinceMark = 0 THEN 1 ELSE 2
    /\ commands' = <<>>
    /\ UNCHANGED <<docVars, mCoords, mInterior>>

\* The record is marked deleted, or restored, by another editor.
DocDelete ==
    /\ docIndex # -1
    /\ docDeleted' = ~docDeleted
    /\ Record("document", -1, -1)
    /\ commands' = <<>>
    /\ UNCHANGED <<docIndex, mPoints, mEdges, mCoords, mInterior, selfVars, ticksSinceMark>>

\* The record is removed from the collection, or created anew (empty).
DocRemove ==
    /\ docIndex' = IF docIndex = -1 THEN 0 ELSE -1
    /\ docDeleted' = FALSE
    /\ mPoints' = <<>>
    /\ mEdges' = <<>>
    /\ Record("document", -1, -1)
    /\ commands' = <<>>
    /\ UNCHANGED <<mCoords, mInterior, selfVars, ticksSinceMark>>

\* The callers of the selection interface alone.
NextSelection ==
    \/ CallSelectAll
    \/ CallToggleSelected
    \/ CallInvertSelected
    \/ CallClearSelected
    \/ DocDelete
    \/ DocRemove

\* Neither the selection nor the geometry reads the edges of the record.
InitNoEdges == Init /\ mEdges = <<>>

SelectionSpec == InitNoEdges /\ [][NextSelection]_vars

\* Selection, connection indicator and the per-tick geometry update.
NextGeometry ==
    \/ CallSelectAll
    \/ CallToggleSelected
    \/ CallInvertSelected
    \/ CallClearSelected
    \/ CallSetupConnectionIndicator
    \/ CallResetMove
    \/ CallRecreateGeometry
    \/ CallRemoveGeometry
    \/ Tick
    \/ DocDelete

\* mInterior bears on clampToCell alone, which they do not call either.
InitExterior == InitNoEdges /\ mInterior = FALSE

GeometrySpec == InitExterior /\ [][NextGeometry]_vars

\* Selecting, moving and building commands.
NextEdit ==
    \/ CallToggleSelected
    \/ CallMoveSelected
    \/ CallResetMove
    \/ CallApplyPoint
    \/ CallApplyPosition
    \/ CallApplyEdge
    \/ CallApplyEdges
    \/ CallApplyRemoveNodes
    \/ CallApplyRemoveEdges
    \/ DocDelete

EditSpec == InitNoEdges /\ [][NextEdit]_vars

\* The edge builders read neither the coordinates nor mInterior nor the pending
\* move: here the record's edges vary instead.
InitEdges == Init /\ mInterior = FALSE

NextEdge ==
    \/ CallToggleSelected
    \/ CallApplyEdge
    \/ CallApplyEdges
    \/ CallApplyRemoveEdges

EdgeSpec == InitEdges /\ [][NextEdge]_vars

\* applyEdge reads the record and its two arguments, nothing of the instance.
ApplyEdgeSpec == InitEdges /\ [][CallApplyEdge]_vars

\* Every operation that consults the record, on a record that goes and comes.
NextOperations ==
    \/ CallSelectAll
    \/ CallToggleSelected
    \/ CallInvertSelected
    \/ CallClearSelected
    \/ CallSetupConnectionIndicator
    \/ CallApplyPoint
    \/ CallApplyPosition
    \/ CallApplyEdge
    \/ CallApplyEdges
    \/ CallApplyRemoveNodes
    \/ CallApplyRemoveEdges
    \/ Tick
    \/ DocDelete

\* What these operations do on a record that does not resolve depends on no
\* content of the record: the record is missing from the start, or is a full
\* one that DocDelete takes away and brings back.
InitFullOrMissing == InitExterior /\ (docIndex # -1 => Len(mPoints) = MaxPoints)

OperationsSpec == InitFullOrMissing /\ [][NextOperations]_vars

\* A move that is started, previewed, committed or cancelled.
NextMove ==
    \/ CallToggleSelected
    \/ CallSetupConnectionIndicator
    \/ CallMoveSelected
    \/ CallResetMove
    \/ CallApplyPoint
    \/ CallApplyPosition
    \/ CallApplyEdge
    \/ CallApplyEdges
    \/ CallApplyRemoveNodes
    \/ CallApplyRemoveEdges

MoveSpec == InitFullOrMissing /\ [][NextMove]_vars

\* Removing the edges among the selected nodes of a record with edges.
NextRemoveEdges ==
    \/ CallToggleSelected
    \/ CallApplyRemoveEdges

RemoveEdgesSpec == InitEdges /\ [][NextRemoveEdges]_vars

\* Joining one node to the selected nodes of a record with edges.
NextApplyEdges ==
    \/ CallToggleSelected
    \/ CallApplyEdges

ApplyEdgesSpec == InitEdges /\ [][NextApplyEdges]_vars

Next == NextOperations \/ NextSelection \/ NextGeometry \/ NextEdit \/ NextEdge \/ NextMove
            \/ NextRemoveEdges \/ NextApplyEdges

Spec == Init /\ [][Next]_vars

\* ------------------------------------------------------------ properties

\* list with every occurrence of e taken out and e put last.
MovedToEnd(list, e) == SelectSeq(list, LAMBDA x : x # e) \o <<e>>

\* The elements of set in ascending order.
RECURSIVE Ascending(_)
Ascending(set) ==
    IF set = {} THEN <<>>
    ELSE LET low == CHOOSE e \in set : \A f \in set : e <= f
         IN  <<low>> \o Ascending(set \ {low})

IsAscending(list) == \A i, j \in 1 .. Len(list) : i < j => list[i] < list[j]

PointCount == Len(mPoints)

\* The record is in the collection and not marked deleted.
GraphPresent == docIndex # -1 /\ ~docDeleted

\* The state follows two toggleSelected(n) calls in a row, with the same n.
ToggledTwice == last.op = "toggleSelected" /\ last.repeated

\* The state follows two invertSelected() calls in a row on a resolving record.
\* (The document changes only in steps of its own, so it is the same record
\* in both calls.)
InvertedTwice == last.op = "invertSelected" /\ last.repeated /\ GraphPresent

\* C1 as stated: toggleSelected(n) twice in a row leaves the selection list
\* identical, in contents and order, to the list before the two calls.
C1_ToggleTwiceIdentity == ToggledTwice => mSelected = selectedBeforeTwo

\* C1 amended: toggleSelected(n) twice in a row leaves the same elements
\* selected; the list is the one before the two calls when n was not selected,
\* and when n was selected it is that list with n moved to the end (the same
\* list when n was already last), the other elements keeping their order.
C1_ToggleTwiceMovesToEnd ==
    ToggledTwice =>
        /\ Range(mSelected) = Range(selectedBeforeTwo)
        /\ mSelected = IF Contains(selectedBeforeTwo, last.node1)
                       THEN MovedToEnd(selectedBeforeTwo, last.node1)
                       ELSE selectedBeforeTwo

\* C1 witness: n was selected and not last before the two calls.
C1_Witness ==
    /\ ToggledTwice
    /\ Contains(selectedBeforeTwo, last.node1)
    /\ selectedBeforeTwo[Len(selectedBeforeTwo)] # last.node1
    /\ mSelected # selectedBeforeTwo

\* C2 as stated: with the record present and unchanged, invertSelected() twice
\* in a row returns the original selection list.
C2_InvertTwiceIdentity == InvertedTwice => mSelected = selectedBeforeTwo

\* C2 amended: with the record present and unchanged, invertSelected() twice in
\* a row yields the original selection's valid row indices (those below the
\* point count) in ascending order; that is the original list when the
\* original was ascending and held valid indices only.
C2_InvertTwiceAscending ==
    InvertedTwice =>
        /\ mSelected = Ascending({e \in Range(selectedBeforeTwo) : e < PointCount})
        /\ (IsAscending(selectedBeforeTwo) /\ \A e \in Range(selectedBeforeTwo) : e < PointCount)
               => mSelected = selectedBeforeTwo

\* C2 witness: the original selection was out of order and all of it valid.
C2_Witness ==
    /\ InvertedTwice
    /\ ~IsAscending(selectedBeforeTwo)
    /\ \A e \in Range(selectedBeforeTwo) : e < PointCount
    /\ mSelected # selectedBeforeTwo

\* C3: selectAll() on a resolving record with N points replaces the selection,
\* whatever it was, with <<0, ..., N-1>>; on a missing or deleted record it
\* leaves the selection empty.
C3_SelectAll ==
    last.op = "selectAll" =>
        IF GraphPresent
        THEN mSelected = [i \in 1 .. PointCount |-> i - 1]
        ELSE mSelected = <<>>

\* C3 witness: selectAll() replaced a selection that was out of order and held
\* an index past the end.
C3_Witness ==
    /\ last.op = "selectAll"
    /\ GraphPresent
    /\ Len(mSelected) = MaxPoints
    /\ ~IsAscending(selectedBefore)
    /\ \E e \in Range(selectedBefore) : e >= PointCount

\* Row indices of the commands of a macro, in the order pushed.
Rows(cmds) == [i \in 1 .. Len(cmds) |-> cmds[i].row]

IsStrictlyDescending(list) == \A i, j \in 1 .. Len(list) : i < j => list[i] > list[j]

\* C4: applyRemoveNodes on a present record pushes exactly one delete-row
\* command per selected index, and the rows of those commands are strictly
\* descending in the order pushed, whatever the order of the selection.
C4_RemoveNodesDescending ==
    (last.op = "applyRemoveNodes" /\ GraphPresent) =>
        /\ Len(commands) = Len(selectedBefore)
        /\ \A i \in 1 .. Len(commands) :
               commands[i].kind = "DeleteNested" /\ commands[i].parent = "PathgridPoints"
        /\ Range(Rows(commands)) = Range(selectedBefore)
        /\ IsStrictlyDescending(Rows(commands))

\* C4 witness: nodes removed from a selection that was not in descending order.
C4_Witness ==
    /\ last.op = "applyRemoveNodes"
    /\ GraphPresent
    /\ Len(commands) >= 2
    /\ ~IsStrictlyDescending(selectedBefore)

\* The three commands that add the edge row r from -> to.
EdgeTriple(r, from, to) ==
    << [kind |-> "AddNested", parent |-> "PathgridEdges", row |-> r, column |-> "", value |-> 0],
       [kind |-> "Modify", parent |-> "PathgridEdges", row |-> r, column |-> "Edge0",
        value |-> from],
       [kind |-> "Modify", parent |-> "PathgridEdges", row |-> r, column |-> "Edge1",
        value |-> to] >>

HasEdge(from, to) == \E i \in 1 .. Len(mEdges) : mEdges[i] = <<from, to>>

\* C5: applyEdge(a, b) on a record with E edge rows pushes, for each of the
\* directions (a, b) then (b, a) that has no edge row, append-row(r),
\* set-from(r), set-to(r), with r = E for the first direction pushed and
\* r = E + 1 for the second when the first was pushed too: 6 commands when
\* both directions are missing, 3 when one exists, 0 when both exist.
C5_ApplyEdgeCommands ==
    (last.op = "applyEdge" /\ GraphPresent) =>
        LET a == last.node1
            b == last.node2
            E == Len(mEdges)
            forward  == IF HasEdge(a, b) THEN <<>> ELSE EdgeTriple(E, a, b)
            backward == IF HasEdge(b, a) THEN <<>>
                        ELSE EdgeTriple(IF HasEdge(a, b) THEN E ELSE E + 1, b, a)
        IN  /\ commands = forward \o backward
            /\ Len(commands) = CASE ~HasEdge(a, b) /\ ~HasEdge(b, a) -> 6
                                 [] HasEdge(a, b) /\ HasEdge(b, a) -> 0
                                 [] OTHER -> 3

\* C5 witness: both directions were missing on a record that already had edges.
C5_Witness ==
    /\ last.op = "applyEdge"
    /\ GraphPresent
    /\ last.node1 # last.node2
    /\ Len(mEdges) >= 1
    /\ Len(commands) = 6
    /\ commands[4].row = Len(mEdges) + 1

\* The record after the caller has committed the macro.
Committed == executeAll([mPoints |-> mPoints, mEdges |-> mEdges], commands, 1)

\* C6: from a record whose edge table holds no two rows with the same
\* (from, to), committing the macro built by applyEdge(a, b) or applyEdges(n),
\* for any nodes including a = b, leaves the edge table without duplicates.
C6_NoDuplicateEdges ==
    (last.op \in {"applyEdge", "applyEdges"} /\ GraphPresent /\ NoDuplicates(mEdges))
        => NoDuplicates(Committed.mEdges)

\* Values clampToCell is probed with.
ClampProbes == {-9000, -50, -1, 0, 1, 4096, CellExtent - 1, CellExtent, CellExtent + 1, 9000}

IsCoordinate(cmd) == cmd.kind = "Modify" /\ cmd.column \in {"PosX", "PosY", "PosZ"}

\* C7: clampToCell(v) is v on an interior instance; on an exterior one it is 0
\* for v < 0, the cell extent for v above it, and v otherwise; so every
\* coordinate applyPoint or applyPosition puts in a command of an exterior
\* instance lies in 0 .. extent.
C7_ClampToCell ==
    /\ \A v \in ClampProbes :
           clampToCell(v) = IF mInterior THEN v
                            ELSE IF v < 0 THEN 0
                            ELSE IF v > CellExtent THEN CellExtent
                            ELSE v
    /\ (last.op \in {"applyPoint", "applyPosition"} /\ ~mInterior) =>
           \A i \in 1 .. Len(commands) :
               IsCoordinate(commands[i]) =>
                   commands[i].value >= 0 /\ commands[i].value <= CellExtent

\* C7 witness: an exterior instance moved a point with a coordinate below zero
\* and one beyond the extent.
C7_Witness ==
    /\ last.op = "applyPosition"
    /\ ~mInterior
    /\ GraphPresent
    /\ \E i \in 1 .. Len(mSelected) :
           /\ mSelected[i] < PointCount
           /\ mPoints[mSelected[i] + 1][1] < 0
           /\ mPoints[mSelected[i] + 1][3] > CellExtent
    /\ \E i, j \in 1 .. Len(commands) : commands[i].value = 0 /\ commands[j].value = CellExtent

\* C8: when update() runs again and nothing has marked geometry since its last
\* run, it replaces or removes no drawable.
C8_SecondTickKeepsDrawables ==
    [][(ticksSinceMark >= 1 /\ last'.op = "update") =>
           /\ mPathgridGeometry' = mPathgridGeometry
           /\ mSelectedGeometry' = mSelectedGeometry
           /\ wireframeNodes' = wireframeNodes]_vars

\* C8 witness: update() has run twice in a row with both drawables in place.
C8_Witness ==
    /\ ticksSinceMark = 2
    /\ last.op = "update"
    /\ mPathgridGeometry # 0
    /\ mSelectedGeometry # 0

Builders ==
    {"applyPoint", "applyPosition", "applyEdge", "applyEdges", "applyRemoveNodes",
     "applyRemoveEdges"}

\* C9: when the record does not resolve or is marked deleted, each of the six
\* apply* operations pushes no command; applyRemoveNodes leaves the selection
\* empty (as it does on a present record), the other five leave it unchanged.
C9_AbsentGraphNoCommands ==
    /\ (last.op \in Builders /\ ~GraphPresent) =>
           /\ commands = <<>>
           /\ last.op # "applyRemoveNodes" => mSelected = selectedBefore
    /\ last.op = "applyRemoveNodes" => mSelected = <<>>

\* C9 witness: applyRemoveNodes on a deleted record with nodes selected.
C9_Witness ==
    /\ last.op = "applyRemoveNodes"
    /\ docIndex # -1
    /\ docDeleted
    /\ PointCount > 0
    /\ selectedBefore # <<>>

\* The operations C10 names.
ConsultingOperations ==
    {"toggleSelected", "selectAll", "invertSelected", "setupConnectionIndicator", "update"}
        \cup Builders

\* C10 as stated: after any operation that ran while the record did not
\* resolve, the selection is empty.
C10_AbsentGraphEmptiesSelection ==
    (last.op \in ConsultingOperations /\ ~GraphPresent) => mSelected = <<>>

\* C10 amended: of the operations that run while the record does not resolve,
\* selectAll, invertSelected, clearSelected and applyRemoveNodes leave the
\* selection empty; toggleSelected still toggles its node; and
\* setupConnectionIndicator, update and the other five apply* operations leave
\* the selection as it was.
C10_AbsentGraphSelection ==
    ~GraphPresent =>
        /\ last.op \in {"selectAll", "invertSelected", "clearSelected", "applyRemoveNodes"}
               => mSelected = <<>>
        /\ last.op = "toggleSelected" =>
               mSelected = IF Contains(selectedBefore, last.node1)
                           THEN SelectSeq(selectedBefore, LAMBDA x : x # last.node1)
                           ELSE Append(selectedBefore, last.node1)
        /\ last.op \in ({"setupConnectionIndicator", "update"} \cup Builders)
                           \ {"applyRemoveNodes"}
               => mSelected = selectedBefore

\* C10 witness: selectAll() emptied a selection on a deleted record.
C10_Witness ==
    /\ last.op = "selectAll"
    /\ docIndex # -1
    /\ docDeleted
    /\ selectedBefore # <<>>
    /\ mSelected = <<>>

\* The operations of the selection interface C11 and C12 name.
SelectionOperations ==
    {"selectAll", "toggleSelected", "invertSelected", "clearSelected",
     "setupConnectionIndicator", "resetMove"}

BuiltSelected == mSelectedGeometry' # 0 /\ mSelectedGeometry' # mSelectedGeometry

BuiltPathgrid == mPathgridGeometry' # 0 /\ mPathgridGeometry' # mPathgridGeometry

Persisted(row, k) == mPoints[row + 1][k]

\* The macro a call of applyPosition would build in this state.
SecondApplyPosition(stray) == applyPosition(Self, <<>>, stray).commands

\* C13 as stated: when applyPosition returns on a present record the pending
\* offset (the position of mSelectedNode) is zero, so that a second
\* applyPosition right after it pushes, for each selected row of the record,
\* the clamp of the row's persisted coordinates.
C13_ApplyPositionResetsOffset ==
    (last.op = "applyPosition" /\ GraphPresent) =>
        /\ mSelectedNodePos = <<0, 0, 0>>
        /\ \A stray \in StrayPoints :
           \A i \in 1 .. Len(mSelected) :
               mSelected[i] < PointCount =>
                   \A k \in 1 .. 3 :
                       SecondApplyPosition(stray)[3 * (i - 1) + k].value
                           = clampToCell(Persisted(mSelected[i], k))

\* Batches a caller may hand to a builder: a fresh one, one already in use.
PriorBatches == {<<>>, <<DeleteNestedCommand("PathgridEdges", 0)>>}

\* Every builder, called in this state on a batch already in use, returns the
\* batch with what it pushes on a fresh one put after it.
BuildersAppend ==
    \A prior \in PriorBatches :
        /\ \A worldPos \in WorldPositions :
               applyPoint(Self, prior, worldPos).commands
                   = prior \o applyPoint(Self, <<>>, worldPos).commands
        /\ \A stray \in StrayPoints :
               applyPosition(Self, prior, stray).commands
                   = prior \o applyPosition(Self, <<>>, stray).commands
        /\ \A node1, node2 \in NodeIds :
               applyEdge(Self, prior, node1, node2).commands
                   = prior \o applyEdge(Self, <<>>, node1, node2).commands
        /\ \A node \in NodeIds :
               applyEdges(Self, prior, node).commands
                   = prior \o applyEdges(Self, <<>>, node).commands
        /\ applyRemoveNodes(Self, prior).commands
               = prior \o applyRemoveNodes(Self, <<>>).commands
        /\ applyRemoveEdges(Self, prior).commands
               = prior \o applyRemoveEdges(Self, <<>>).commands

\* C14: no operation of the instance changes the record (its points, its
\* edges, its place in the collection); a builder only appends to the batch it
\* is handed; and resetMove right after moveSelected pushes no command, leaves
\* the pending offset zero and the connection indicator cleared, the record
\* being what it was before the move.
C14_DocumentUntouched ==
    /\ []BuildersAppend
    /\ [][/\ last'.op # "document" => docVars' = docVars
          /\ (last.op = "moveSelected" /\ last'.op = "resetMove") =>
                 /\ commands = <<>>
                 /\ commands' = <<>>
                 /\ mSelectedNodePos' = <<0, 0, 0>>
                 /\ ~mConnectionIndicator'
                 /\ mSelected' = mSelected]_vars

\* C14 witness: a move of selected nodes with the connection indicator set was
\* cancelled on a present record.
C14_Witness ==
    /\ last.op = "resetMove"
    /\ GraphPresent
    /\ PointCount > 0
    /\ mSelected # <<>>
    /\ mSelectedNodePos = <<0, 0, 0>>
    /\ ~mConnectionIndicator
    /\ wireframeNodes = mSelected
    /\ mSelectedGeometry # 0

\* update() has just run on an absent record, the geometry having been marked
\* since its run before: it ran with a rebuild or a teardown requested.
TickedOnAbsentGraph == last.op = "update" /\ ticksSinceMark = 1 /\ ~GraphPresent

\* C15 as stated: when update() runs with a rebuild requested and the record
\* absent, it switches to teardown: the persisted-graph drawable and the
\* highlight drawable are gone after that run or, nothing marking the geometry
\* in between, after the run that follows it.
C15_AbsentGraphTearsDown ==
    [][(TickedOnAbsentGraph /\ last'.op = "update") =>
           /\ mPathgridGeometry' = 0
           /\ mSelectedGeometry' = 0]_vars

\* C16: update() entered with mRemoveGeometry set, mChangeGeometry set or not,
\* removes the persisted-graph drawable and the highlight drawable and builds
\* none; and update() always returns with both flags false.
C16_TeardownPrecedence ==
    [][last'.op = "update" =>
           /\ ~mChangeGeometry'
           /\ ~mRemoveGeometry'
           /\ mRemoveGeometry =>
                  /\ mPathgridGeometry' = 0
                  /\ mSelectedGeometry' = 0
                  /\ wireframeNodes' = <<>>]_vars

\* C16 witness: update() has run right after a marking on a present record
\* with nodes selected and left no drawable: it took the teardown branch.
C16_Witness ==
    /\ last.op = "update"
    /\ ticksSinceMark = 1
    /\ GraphPresent
    /\ PointCount > 0
    /\ mSelected # <<>>
    /\ mPathgridGeometry = 0
    /\ mSelectedGeometry = 0
    /\ ~mChangeGeometry
    /\ ~mRemoveGeometry

\* The nested columns of a point, in the order X, Y, Z.
Axis == <<"PosX", "PosY", "PosZ">>

\* C17: applyPosition on a present record pushes, for each selected node in
\* selection order, three set-column commands, X then Y then Z, at the node's
\* own row, each with the value clamp(persisted coordinate + pending offset
\* truncated to int) of that axis, and no append-row or delete-row command:
\* 3 x selection size commands in all.  (A selected index with no row in the
\* record has no persisted coordinate; its three commands are counted and
\* addressed all the same.)
C17_ApplyPositionCommands ==
    (last.op = "applyPosition" /\ GraphPresent) =>
        /\ Len(commands) = 3 * Len(selectedBefore)
        /\ mSelected = selectedBefore
        /\ \A i \in 1 .. Len(selectedBefore) :
               \A k \in 1 .. 3 :
                   LET cmd == commands[3 * (i - 1) + k]
                   IN  /\ cmd.kind = "Modify"
                       /\ cmd.parent = "PathgridPoints"
                       /\ cmd.row = selectedBefore[i]
                       /\ cmd.column = Axis[k]
                       /\ cmd.row < PointCount =>
                              cmd.value = clampToCell(Persisted(cmd.row, k)
                                                          + ToInt(mSelectedNodePos[k]))

\* C17 witness: a pending move of one unit and a half was applied to two rows
\* of the record selected in descending order.
C17_Witness ==
    /\ last.op = "applyPosition"
    /\ GraphPresent
    /\ Len(mSelected) >= 2
    /\ ~IsAscending(mSelected)
    /\ \A i \in 1 .. Len(mSelected) : mSelected[i] < PointCount
    /\ mSelectedNodePos = <<3, -3, 0>>
    /\ Len(commands) = 3 * Len(mSelected)
    /\ commands[2].value = Persisted(mSelected[1], 2) - 1

\* clamp(integer part of (world coordinate - base position)) on axis k.
NewCoordinate(worldPos, k) == clampToCell(ToInt(worldPos[k] - basePosition[k]))

\* Append-row at the point count, then set X, Y, Z of that row.
PointCommands(worldPos) ==
    << [kind |-> "AddNested", parent |-> "PathgridPoints", row |-> PointCount,
        column |-> "", value |-> 0] >>
    \o [k \in 1 .. 3 |->
            [kind |-> "Modify", parent |-> "PathgridPoints", row |-> PointCount,
             column |-> Axis[k], value |-> NewCoordinate(worldPos, k)]]

\* C18: applyPoint on a present record with P points pushes exactly four
\* commands: append-row at P of the points, then set X, set Y, set Z at row P
\* with the values clamp(integer part of (world - base)); and executing them
\* in order gives a record with P + 1 points, the last with those coordinates,
\* the first P and the edges unchanged.
C18_ApplyPointCommands ==
    GraphPresent =>
        /\ \A worldPos \in WorldPositions :
               LET built == applyPoint(Self, <<>>, worldPos).commands
                   after == executeAll([mPoints |-> mPoints, mEdges |-> mEdges], built, 1)
               IN  /\ built = PointCommands(worldPos)
                   /\ Len(after.mPoints) = PointCount + 1
                   /\ after.mPoints[PointCount + 1]
                          = [k \in 1 .. 3 |-> NewCoordinate(worldPos, k)]
                   /\ SubSeq(after.mPoints, 1, PointCount) = mPoints
                   /\ after.mEdges = mEdges
        /\ last.op = "applyPoint" =>
               /\ \E worldPos \in WorldPositions : commands = PointCommands(worldPos)
               /\ Len(Committed.mPoints) = PointCount + 1
               /\ mSelected = selectedBefore

\* C18 witness: a point beyond two borders of an exterior cell was added to a
\* record that had points.
C18_Witness ==
    /\ last.op = "applyPoint"
    /\ GraphPresent
    /\ ~mInterior
    /\ PointCount >= 1
    /\ Len(commands) = 4
    /\ commands[1].kind = "AddNested"
    /\ commands[1].row = PointCount
    /\ Committed.mPoints[PointCount + 1] = <<10, 0, CellExtent>>

\* The edge rows that are the first row of their (from, to) and join two
\* nodes at distinct positions of list.
FirstRowsAmong(list) ==
    {r \in 0 .. Len(mEdges) - 1 :
        /\ \E i, j \in 1 .. Len(list) : i # j /\ mEdges[r + 1] = <<list[i], list[j]>>
        /\ \A q \in 0 .. r - 1 : mEdges[q + 1] # mEdges[r + 1]}

\* C19: applyRemoveEdges on a present record pushes one delete-row command for
\* each row r that is the first edge row matching (s_i, s_j) for two distinct
\* positions i, j of the selection, in strictly descending order of r, none
\* twice; its loops read no selection element at a position >= the selection
\* size, the outer bound i <= size notwithstanding; and the selection is left
\* as it was.
C19_RemoveEdgesRows ==
    (last.op = "applyRemoveEdges" /\ GraphPresent) =>
        /\ \A i \in 1 .. Len(commands) :
               commands[i].kind = "DeleteNested" /\ commands[i].parent = "PathgridEdges"
        /\ Range(Rows(commands)) = FirstRowsAmong(selectedBefore)
        /\ IsStrictlyDescending(Rows(commands))
        /\ \A p \in removeEdgesPairs(Len(selectedBefore)) :
               p[1] < Len(selectedBefore) /\ p[2] < Len(selectedBefore)
        /\ mSelected = selectedBefore

\* C19 witness: two rows were removed for three selected nodes, the record
\* holding the edge of one pair in both directions.
C19_Witness ==
    /\ last.op = "applyRemoveEdges"
    /\ GraphPresent
    /\ Len(mSelected) = MaxPoints + 1
    /\ Len(mEdges) = MaxEdges
    /\ Len(commands) >= 2
    /\ commands[1].row > commands[2].row

\* The selection with the connection node taken from its place, if it has
\* one, and put last; the selection itself when no indicator is set.
HighlightList ==
    IF mConnectionIndicator THEN MovedToEnd(mSelected, mConnectionNode) ELSE mSelected

Occurrences(list, e) == Cardinality({i \in 1 .. Len(list) : list[i] = e})

\* C20: with the connection indicator set on node c, the node list the
\* highlight drawable is built from is the selection with c taken out of its
\* place (if it is selected) and put last, the other nodes in selection order
\* and c in it exactly once; with no indicator set it is the selection; and
\* setupConnectionIndicator leaves the selection list unchanged.
C20_HighlightList ==
    /\ mSelectedGeometry # 0 =>
           /\ wireframeNodes = HighlightList
           /\ mConnectionIndicator =>
                  /\ wireframeNodes[Len(wireframeNodes)] = mConnectionNode
                  /\ Occurrences(wireframeNodes, mConnectionNode) = 1
                  /\ SubSeq(wireframeNodes, 1, Len(wireframeNodes) - 1)
                         = SelectSeq(mSelected, LAMBDA x : x # mConnectionNode)
    /\ last.op = "setupConnectionIndicator" =>
           /\ mSelected = selectedBefore
           /\ mConnectionIndicator
           /\ mConnectionNode = last.node1

\* C20 witness: the indicator was set on a selected node that is not the last
\* of the selection, and the highlight drawable built.
C20_Witness ==
    /\ last.op = "setupConnectionIndicator"
    /\ GraphPresent
    /\ mSelectedGeometry # 0
    /\ Len(mSelected) >= 2
    /\ Contains(mSelected, mConnectionNode)
    /\ mSelected[Len(mSelected)] # mConnectionNode
    /\ wireframeNodes # mSelected
    /\ Len(wireframeNodes) = Len(mSelected)

\* The points of the record at the row positions not in list, in row order.
PointsOutside(list) ==
    LET keep == Ascending({r \in 0 .. PointCount - 1 : ~Contains(list, r)})
    IN  [k \in 1 .. Len(keep) |-> mPoints[keep[k] + 1]]

\* C21: when every selected index is a row of the points, executing the batch
\* of applyRemoveNodes in order, each delete-row shifting the rows after it
\* down by one, removes exactly the points at the rows selected: what remains
\* is the original sequence at the unselected positions, in its order.
C21_MultiDelete ==
    (/\ last.op = "applyRemoveNodes"
     /\ GraphPresent
     /\ \A i \in 1 .. Len(selectedBefore) : selectedBefore[i] < PointCount) =>
        /\ Committed.mPoints = PointsOutside(selectedBefore)
        /\ Len(Committed.mPoints) = PointCount - Len(selectedBefore)

\* C21 witness: two rows selected lowest first were removed in one batch.
C21_Witness ==
    /\ last.op = "applyRemoveNodes"
    /\ GraphPresent
    /\ Len(selectedBefore) >= 2
    /\ IsAscending(selectedBefore)
    /\ \A i \in 1 .. Len(selectedBefore) : selectedBefore[i] < PointCount
    /\ Len(commands) = Len(selectedBefore)
    /\ Len(Committed.mPoints) = PointCount - Len(selectedBefore)

\* C22 as stated: in every reachable state applyPosition reads points at rows
\* below the point count only: every selection element it dereferences (the
\* row its three commands address) is a row of the record, so that what it
\* pushes does not depend on what lies past the end of the points.
C22_ApplyPositionReadsValidRows ==
    (last.op = "applyPosition" /\ GraphPresent) =>
        /\ \A i \in 1 .. Len(commands) : commands[i].row < PointCount
        /\ \A stray1, stray2 \in StrayPoints :
               SecondApplyPosition(stray1) = SecondApplyPosition(stray2)

\* C23: executing in order the batch applyEdges(n) builds over the selected
\* nodes, every addEdge step taking its row from the same unchanged edge count,
\* gives a record in which, for every selected node s # n, the edges (n, s)
\* and (s, n) both exist, and in which every edge row there was before the
\* batch is still in its place with its endpoints.
C23_ApplyEdgesCommitted ==
    (last.op = "applyEdges" /\ GraphPresent) =>
        LET n     == last.node1
            after == Committed.mEdges
        IN  /\ \A i \in 1 .. Len(selectedBefore) :
                   selectedBefore[i] # n =>
                       /\ Contains(after, <<n, selectedBefore[i]>>)
                       /\ Contains(after, <<selectedBefore[i], n>>)
            /\ Len(after) >= Len(mEdges)
            /\ SubSeq(after, 1, Len(mEdges)) = mEdges
            /\ Len(after) = Len(mEdges) + Len(commands) \div 3
            /\ mSelected = selectedBefore

\* C23 witness: two addEdge steps of one batch each pushed both directions,
\* starting at the same row of a record that had an edge.
C23_Witness ==
    /\ last.op = "applyEdges"
    /\ GraphPresent
    /\ Len(mEdges) >= 1
    /\ Len(selectedBefore) >= 2
    /\ \E i \in 1 .. Len(selectedBefore) : selectedBefore[i] # last.node1
    /\ Len(commands) >= 12
    /\ commands[1].row = Len(mEdges)
    /\ commands[7].row = Len(mEdges)
    /\ Len(Committed.mEdges) >= Len(mEdges) + 4

====
